---- MODULE Spec2Model ----
(***************************************************************************)
(* Model of vix_11_23.py: a backtest of holding UPRO only while the VIX is *)
(* below a threshold and below its own moving average.  The script is a    *)
(* straight-line pipeline over one pandas DataFrame; every column is a     *)
(* sequence indexed by date position 1..n, and each block of the script    *)
(* is one action.                                                          *)
(*                                                                         *)
(* Numbers are exact rationals <<num, den>> (den > 0, lowest terms); the   *)
(* float NaN is <<0, 0>> and propagates through arithmetic and makes every *)
(* comparison false, as in numpy.  Rounding error of binary floats is not  *)
(* modelled.                                                               *)
(***************************************************************************)
EXTENDS Integers, Sequences, FiniteSets, TLC

VARIABLES pc, VIX, UPRO, VIX_MA5, desired_long, position, UPRO_ret,
          pos_change, trade_cost, strategy_ret, NAV_UPRO, NAV_strategy,
          ann_ret_strat, ann_ret_upro, mdd_strat, mdd_upro,
          total_trades, days_in_market, nav_arg, mdd_res

vars == <<pc, VIX, UPRO, VIX_MA5, desired_long, position, UPRO_ret,
          pos_change, trade_cost, strategy_ret, NAV_UPRO, NAV_strategy,
          ann_ret_strat, ann_ret_upro, mdd_strat, mdd_upro,
          total_trades, days_in_market, nav_arg, mdd_res>>

(* ---------------------------- bounds ----------------------------------- *)
MaxLen == 6
MaxNavLen == 4
MaxPosLen == 6
(* the UPRO close is constant up to the last PriceTail dates *)
PriceTail == 2

(* levels the downloaded VIX close may take, around the threshold *)
VixLevels == {10, 20, 30}
(* closing prices of UPRO (always positive) *)
PriceLevels == {1, 2}

(* ------------------------- script parameters --------------------------- *)
VIX_THR == 15
MA_WINDOW == 5
TRADE_COST == 0
PER_YEAR == 252

(* ------------------------- float arithmetic ---------------------------- *)
NaN == <<0, 0>>
IsNaN(x) == x[2] = 0
R(i) == <<i, 1>>
Abs(i) == IF i < 0 THEN -i ELSE i

RECURSIVE GCD(_, _)
GCD(a, b) == IF b = 0 THEN a ELSE GCD(b, a % b)

Norm(n, d) ==
  LET g == GCD(Abs(n), d)
  IN  IF n >= 0 THEN <<n \div g, d \div g>> ELSE <<-((-n) \div g), d \div g>>

RAdd(x, y) == IF IsNaN(x) \/ IsNaN(y) THEN NaN
              ELSE Norm(x[1] * y[2] + y[1] * x[2], x[2] * y[2])
RSub(x, y) == IF IsNaN(x) \/ IsNaN(y) THEN NaN
              ELSE Norm(x[1] * y[2] - y[1] * x[2], x[2] * y[2])
RMul(x, y) == IF IsNaN(x) \/ IsNaN(y) THEN NaN
              ELSE Norm(x[1] * y[1], x[2] * y[2])
(* 0/0 is NaN; x/0 for x # 0 is +-inf in numpy and is not represented:    *)
(* every divisor of the script is a closing price, a running peak of a    *)
(* positive NAV or a positive count.                                      *)
RDiv(x, y) == IF IsNaN(x) \/ IsNaN(y) \/ y[1] = 0 THEN NaN
              ELSE IF y[1] > 0 THEN Norm(x[1] * y[2], x[2] * y[1])
              ELSE Norm(-(x[1] * y[2]), x[2] * (-y[1]))
RAbs(x) == IF IsNaN(x) THEN NaN ELSE <<Abs(x[1]), x[2]>>
(* comparisons with NaN are False *)
RLt(x, y) == ~IsNaN(x) /\ ~IsNaN(y) /\ x[1] * y[2] < y[1] * x[2]
RLe(x, y) == ~IsNaN(x) /\ ~IsNaN(y) /\ x[1] * y[2] <= y[1] * x[2]

(* the column of floats holding the integers of s *)
AsFloat(s) == [t \in 1..Len(s) |-> R(s[t])]

(* --------------------------- pandas helpers ---------------------------- *)
RECURSIVE SumRange(_, _, _)
SumRange(s, lo, hi) == IF hi < lo THEN R(0) ELSE RAdd(SumRange(s, lo, hi - 1), s[hi])

(* Series.rolling(w).mean(): min_periods defaults to w, so the first w-1   *)
(* rows are NaN.                                                           *)
rolling_mean(s, w) ==
  [t \in 1..Len(s) |-> IF t < w THEN NaN ELSE RDiv(SumRange(s, t - w + 1, t), R(w))]

(* Series.pct_change(): NaN at the first row *)
pct_change(s) ==
  [t \in 1..Len(s) |-> IF t = 1 THEN NaN ELSE RSub(RDiv(s[t], s[t - 1]), R(1))]

(* Series.fillna(v) *)
fillna(s, v) == [t \in 1..Len(s) |-> IF IsNaN(s[t]) THEN v ELSE s[t]]

(* Series.diff(): NaN at the first row *)
diff(s) == [t \in 1..Len(s) |-> IF t = 1 THEN NaN ELSE RSub(s[t], s[t - 1])]

(* Series.abs() *)
abs(s) == [t \in 1..Len(s) |-> RAbs(s[t])]

(* Series.cumprod(), skipna=True: a NaN row stays NaN and is skipped by    *)
(* the running product acc                                                 *)
RECURSIVE cumprod_from(_, _, _, _)
cumprod_from(s, t, acc, out) ==
  IF t > Len(s) THEN out
  ELSE IF IsNaN(s[t]) THEN cumprod_from(s, t + 1, acc, Append(out, NaN))
  ELSE cumprod_from(s, t + 1, RMul(acc, s[t]), Append(out, RMul(acc, s[t])))

cumprod(s) == cumprod_from(s, 1, R(1), <<>>)

(* sum of the non-NaN entries of s (Series.sum(), skipna=True) *)
RECURSIVE SumSkipNa(_, _)
SumSkipNa(s, t) == IF t = 0 THEN R(0)
                   ELSE IF IsNaN(s[t]) THEN SumSkipNa(s, t - 1)
                   ELSE RAdd(SumSkipNa(s, t - 1), s[t])

(* int(x) of a float holding a whole number *)
int(x) == x[1] \div x[2]

(* Series.cummax(), skipna=True: a NaN row stays NaN and is skipped by the *)
(* running maximum m (NaN while no value has been seen)                    *)
RECURSIVE cummax_from(_, _, _, _)
cummax_from(s, t, m, out) ==
  IF t > Len(s) THEN out
  ELSE IF IsNaN(s[t]) THEN cummax_from(s, t + 1, m, Append(out, NaN))
  ELSE IF IsNaN(m) \/ RLt(m, s[t])
       THEN cummax_from(s, t + 1, s[t], Append(out, s[t]))
       ELSE cummax_from(s, t + 1, m, Append(out, m))

cummax(s) == cummax_from(s, 1, NaN, <<>>)

(* scan of s[t..hi] for the first minimum among the non-NaN entries, p the *)
(* position of the smallest entry seen so far (0 while there is none)      *)
RECURSIVE ArgMinFrom(_, _, _, _)
ArgMinFrom(s, t, hi, p) ==
  IF t > hi THEN p
  ELSE IF IsNaN(s[t]) THEN ArgMinFrom(s, t + 1, hi, p)
  ELSE IF p = 0 \/ RLt(s[t], s[p]) THEN ArgMinFrom(s, t + 1, hi, t)
  ELSE ArgMinFrom(s, t + 1, hi, p)

(* the same scan for the first maximum *)
RECURSIVE ArgMaxFrom(_, _, _, _)
ArgMaxFrom(s, t, hi, p) ==
  IF t > hi THEN p
  ELSE IF IsNaN(s[t]) THEN ArgMaxFrom(s, t + 1, hi, p)
  ELSE IF p = 0 \/ RLt(s[p], s[t]) THEN ArgMaxFrom(s, t + 1, hi, t)
  ELSE ArgMaxFrom(s, t + 1, hi, p)

(* the scan keeping the last minimum instead of the first *)
RECURSIVE ArgMinLastFrom(_, _, _, _)
ArgMinLastFrom(s, t, hi, p) ==
  IF t > hi THEN p
  ELSE IF IsNaN(s[t]) THEN ArgMinLastFrom(s, t + 1, hi, p)
  ELSE IF p = 0 \/ RLe(s[t], s[p]) THEN ArgMinLastFrom(s, t + 1, hi, t)
  ELSE ArgMinLastFrom(s, t + 1, hi, p)

(* idxmin as it would be if ties went to the last occurrence *)
idxmin_last(s) == ArgMinLastFrom(s, 1, Len(s), 0)

(* Series.idxmin() / Series.idxmax(): label of the first occurrence of the *)
(* extreme value, NaN rows skipped                                         *)
(* (0 stands for the NaN label of a series without a non-NaN row)          *)
idxmin(s) == ArgMinFrom(s, 1, Len(s), 0)
idxmax(s) == ArgMaxFrom(s, 1, Len(s), 0)

(* Series.min(), skipna=True *)
min(s) == IF idxmin(s) = 0 THEN NaN ELSE s[idxmin(s)]

(* number of non-NaN rows: len(s.dropna()) *)
CountValid(s) == Cardinality({t \in 1..Len(s) : ~IsNaN(s[t])})

(* ------------------------- the script's columns ------------------------ *)
(* line 39 *)
VIX_MA5_col(vix) == rolling_mean(AsFloat(vix), MA_WINDOW)

(* the signal without the threshold test *)
desired_long_col_nothr(vix, ma) ==
  [t \in 1..Len(vix) |-> RLt(R(vix[t]), ma[t])]

(* line 42: elementwise (VIX < VIX_THR) & (VIX < VIX_MA5) *)
desired_long_col(vix, ma) ==
  [t \in 1..Len(vix) |-> RLt(R(vix[t]), R(VIX_THR)) /\ RLt(R(vix[t]), ma[t])]

(* the position without the one-bar shift *)
position_col_noshift(desired) ==
  [t \in 1..Len(desired) |-> IF desired[t] THEN 1 ELSE 0]

(* line 44: shift(1) moves every flag one row down and leaves NaN in the   *)
(* first row, fillna(False) makes that row False, astype(int) maps to 0/1  *)
position_col(desired) ==
  [t \in 1..Len(desired) |-> IF t = 1 THEN 0 ELSE IF desired[t - 1] THEN 1 ELSE 0]

(* line 47 *)
UPRO_ret_col(upro) == fillna(pct_change(AsFloat(upro)), R(0))

(* the position change without .abs() *)
pos_change_col_noabs(pos) == diff(AsFloat(pos))

(* line 50 *)
pos_change_col(pos) == abs(diff(AsFloat(pos)))

(* line 53 *)
trade_cost_col(chg) == [t \in 1..Len(chg) |-> RMul(chg[t], R(TRADE_COST))]

(* line 56 *)
strategy_ret_col(ret, pos, cost) ==
  [t \in 1..Len(ret) |-> RSub(RMul(ret[t], R(pos[t])), cost[t])]

(* lines 59-60 *)
NAV_col(ret) == cumprod([t \in 1..Len(ret) |-> RAdd(R(1), ret[t])])

(* ------------------------------ metrics -------------------------------- *)
(* The value (1 + total_return) ** (1 / years) - 1 is kept as its base and *)
(* its years; it is NaN exactly when the base is NaN.                      *)
NaNReturn(days) == [nan |-> TRUE, total_days |-> days, base |-> NaN, years |-> NaN]
NoReturn == NaNReturn(-1)

(* lines 63-73 *)
annualized_return_from_nav(nav, periods_per_year) ==
  LET total_days == CountValid(nav)
  IN  IF total_days < 2 THEN NaNReturn(total_days)
      ELSE LET total_return == RSub(RDiv(nav[Len(nav)], nav[1]), R(1))
               years == RDiv(R(total_days), R(periods_per_year))
           IN  IF RLe(years, R(0)) THEN NaNReturn(total_days)
               ELSE [nan |-> IsNaN(RAdd(R(1), total_return)),
                     total_days |-> total_days,
                     base |-> RAdd(R(1), total_return),
                     years |-> years]

NoDrawdown == [status |-> "unset", mdd |-> NaN, start |-> 0, end |-> 0]
RaisedDrawdown == [status |-> "raised", mdd |-> NaN, start |-> 0, end |-> 0]

(* the drawdown measured against the current NAV instead of the peak *)
drawdown_over_nav(nav, hwm) ==
  [t \in 1..Len(nav) |-> RDiv(RSub(nav[t], hwm[t]), nav[t])]

(* line 80 *)
drawdown(nav, hwm) == [t \in 1..Len(nav) |-> RDiv(RSub(nav[t], hwm[t]), hwm[t])]

(* line 83: nav[:end] is a label slice and includes the row end *)
drawdown_start(nav, end) == idxmax(SubSeq(nav, 1, end))

(* lines 78-84.  idxmin raises ValueError on an empty series; on a series  *)
(* whose drawdowns are all NaN it raises or returns NaN, depending on the  *)
(* pandas version, and the NaN label then fails at the slice or at the     *)
(* .date() call of the report; either way the script stops with an         *)
(* exception, which is the result "raised".                                *)
max_drawdown(nav) ==
  LET hwm == cummax(nav)
      dd == drawdown(nav, hwm)
      mdd == min(dd)
      end == idxmin(dd)
  IN  IF end = 0 THEN RaisedDrawdown
      ELSE [status |-> "ok", mdd |-> mdd, start |-> drawdown_start(nav, end),
            end |-> end]

(* lines 117-118 *)
total_trades_of(chg) == int(SumSkipNa(chg, Len(chg)))
days_in_market_of(pos) == int(SumSkipNa(AsFloat(pos), Len(pos)))

(* --------------------------- the pipeline ------------------------------ *)
SeqsOver(S, lo, hi) == UNION {[1..n -> S] : n \in lo..hi}

Unset ==
  /\ VIX_MA5 = <<>> /\ desired_long = <<>>
  /\ UPRO_ret = <<>> /\ pos_change = <<>> /\ trade_cost = <<>>
  /\ strategy_ret = <<>> /\ NAV_UPRO = <<>> /\ NAV_strategy = <<>>
  /\ ann_ret_strat = NoReturn /\ ann_ret_upro = NoReturn
  /\ mdd_strat = NoDrawdown /\ mdd_upro = NoDrawdown
  /\ total_trades = -1 /\ days_in_market = -1
  /\ mdd_res = NoDrawdown

(* lines 25-36: df holds the rows with a close for both symbols, in date   *)
(* order; RESAMPLE is None                                                 *)
Init ==
  /\ pc = "signals"
  /\ \E n \in 0..MaxLen :
       /\ VIX \in [1..n -> VixLevels]
       /\ UPRO \in {p \in [1..n -> PriceLevels] :
                      \A t \in 1..(n - PriceTail) : p[t] = p[1]}
  /\ position = <<>>
  /\ nav_arg = <<>>
  /\ Unset

(* lines 39-44 *)
Signals ==
  /\ pc = "signals"
  /\ VIX_MA5' = VIX_MA5_col(VIX)
  /\ desired_long' = desired_long_col(VIX, VIX_MA5')
  /\ position' = position_col(desired_long')
  /\ pc' = "returns"
  /\ UNCHANGED <<VIX, UPRO, UPRO_ret, pos_change, trade_cost, strategy_ret,
                 NAV_UPRO, NAV_strategy, ann_ret_strat, ann_ret_upro, mdd_strat,
                 mdd_upro, total_trades, days_in_market, nav_arg, mdd_res>>

(* lines 47-60 *)
Returns ==
  /\ pc = "returns"
  /\ UPRO_ret' = UPRO_ret_col(UPRO)
  /\ pos_change' = pos_change_col(position)
  /\ trade_cost' = trade_cost_col(pos_change')
  /\ strategy_ret' = strategy_ret_col(UPRO_ret', position, trade_cost')
  /\ NAV_UPRO' = NAV_col(UPRO_ret')
  /\ NAV_strategy' = NAV_col(strategy_ret')
  /\ pc' = "metrics"
  /\ UNCHANGED <<VIX, UPRO, VIX_MA5, desired_long, position,
                 ann_ret_strat, ann_ret_upro, mdd_strat,
                 mdd_upro, total_trades, days_in_market, nav_arg, mdd_res>>

(* lines 89-98, the script stopping at line 92 when max_drawdown raises.   *)
(* ann_vol and the Sharpe ratios (lines 90-91, 96-97) are only printed.    *)
MetricsRaise ==
  /\ pc = "metrics"
  /\ max_drawdown(NAV_strategy).status = "raised"
  /\ ann_ret_strat' = annualized_return_from_nav(NAV_strategy, PER_YEAR)
  /\ pc' = "raised"
  /\ UNCHANGED <<VIX, UPRO, VIX_MA5, desired_long, position, UPRO_ret,
                 pos_change, trade_cost, strategy_ret, NAV_UPRO, NAV_strategy,
                 ann_ret_upro, mdd_strat, mdd_upro, total_trades,
                 days_in_market, nav_arg, mdd_res>>

Metrics ==
  /\ pc = "metrics"
  /\ max_drawdown(NAV_strategy).status = "ok"
  /\ ann_ret_strat' = annualized_return_from_nav(NAV_strategy, PER_YEAR)
  /\ mdd_strat' = max_drawdown(NAV_strategy)
  /\ ann_ret_upro' = annualized_return_from_nav(NAV_UPRO, PER_YEAR)
  /\ mdd_upro' = max_drawdown(NAV_UPRO)
  /\ pc' = "output"
  /\ UNCHANGED <<VIX, UPRO, VIX_MA5, desired_long, position, UPRO_ret,
                 pos_change, trade_cost, strategy_ret, NAV_UPRO, NAV_strategy,
                 total_trades, days_in_market, nav_arg, mdd_res>>

(* lines 101-120: the printed summary and the trade statistics *)
Output ==
  /\ pc = "output"
  /\ total_trades' = total_trades_of(pos_change)
  /\ days_in_market' = days_in_market_of(position)
  /\ pc' = "done"
  /\ UNCHANGED <<VIX, UPRO, VIX_MA5, desired_long, position, UPRO_ret,
                 pos_change, trade_cost, strategy_ret, NAV_UPRO, NAV_strategy,
                 ann_ret_strat, ann_ret_upro, mdd_strat, mdd_upro, nav_arg,
                 mdd_res>>

Next == Signals \/ Returns \/ MetricsRaise \/ Metrics \/ Output

Spec == Init /\ [][Next]_vars

(* ------------------- max_drawdown on any NAV series -------------------- *)
(* NAV values a series may hold: worthless, halved, level, doubled *)
NavLevels == {<<0, 1>>, <<1, 2>>, <<1, 1>>, <<2, 1>>}

InitDD ==
  /\ pc = "max_drawdown"
  /\ \E n \in 0..MaxNavLen :
       nav_arg \in {s \in [1..n -> NavLevels] : n > 0 => RLt(R(0), s[1])}
  /\ VIX = <<>> /\ UPRO = <<>> /\ position = <<>>
  /\ Unset

(* lines 78-84, called on nav_arg *)
CallMaxDrawdown ==
  /\ pc = "max_drawdown"
  /\ mdd_res' = max_drawdown(nav_arg)
  /\ pc' = "returned"
  /\ UNCHANGED <<VIX, UPRO, VIX_MA5, desired_long, position, UPRO_ret,
                 pos_change, trade_cost, strategy_ret, NAV_UPRO, NAV_strategy,
                 ann_ret_strat, ann_ret_upro, mdd_strat, mdd_upro,
                 total_trades, days_in_market, nav_arg>>

NextDD == CallMaxDrawdown

SpecDD == InitDD /\ [][NextDD]_vars

(* ----------------- trade statistics on any position column ------------- *)
InitTrades ==
  /\ pc = "pos_change"
  /\ position \in SeqsOver({0, 1}, 0, MaxPosLen)
  /\ VIX = <<>> /\ UPRO = <<>> /\ nav_arg = <<>>
  /\ Unset

(* line 50 *)
PosChange ==
  /\ pc = "pos_change"
  /\ pos_change' = pos_change_col(position)
  /\ pc' = "trade_stats"
  /\ UNCHANGED <<VIX, UPRO, VIX_MA5, desired_long, position, UPRO_ret,
                 trade_cost, strategy_ret, NAV_UPRO, NAV_strategy,
                 ann_ret_strat, ann_ret_upro, mdd_strat, mdd_upro,
                 total_trades, days_in_market, nav_arg, mdd_res>>

(* lines 117-118 *)
TradeStats ==
  /\ pc = "trade_stats"
  /\ total_trades' = total_trades_of(pos_change)
  /\ days_in_market' = days_in_market_of(position)
  /\ pc' = "counted"
  /\ UNCHANGED <<VIX, UPRO, VIX_MA5, desired_long, position, UPRO_ret,
                 pos_change, trade_cost, strategy_ret, NAV_UPRO, NAV_strategy,
                 ann_ret_strat, ann_ret_upro, mdd_strat, mdd_upro, nav_arg,
                 mdd_res>>

NextTrades == PosChange \/ TradeStats

SpecTrades == InitTrades /\ [][NextTrades]_vars

(* ============================ properties =============================== *)
Computed == pc \in {"returns", "metrics", "raised", "output", "done"}
Accumulated == pc \in {"metrics", "raised", "output", "done"}
Measured == pc \in {"output", "done"}

Scenario == <<20, 20, 20, 20, 10, 10>>

(* C1: lag invariant.  On every date the position is 0 or 1, it is 0 on    *)
(* the first date and on every later date it is 1 exactly when the desired *)
(* exposure of the previous date is true; for VIX = [20,20,20,20,10,10]    *)
(* the positions are [0,0,0,0,0,1].                                        *)
LagInvariant ==
  Computed =>
    /\ Len(position) = Len(VIX)
    /\ \A t \in 1..Len(position) :
         /\ position[t] \in {0, 1}
         /\ t = 1 => position[t] = 0
         /\ t > 1 => (position[t] = 1 <=> desired_long[t - 1])
    /\ VIX = Scenario => position = <<0, 0, 0, 0, 0, 1>>

(* the scenario of C1 has run: exposure is desired on the fifth date and   *)
(* the position of that date is still 0                                    *)
LagWitness ==
  /\ pc = "done"
  /\ VIX = Scenario
  /\ desired_long = <<FALSE, FALSE, FALSE, FALSE, TRUE, TRUE>>
  /\ position = <<0, 0, 0, 0, 0, 1>>

RECURSIVE IntSum(_, _, _)
IntSum(s, lo, hi) == IF hi < lo THEN 0 ELSE IntSum(s, lo, hi - 1) + s[hi]

BelowAverage(t) ==
  /\ t >= MA_WINDOW
  /\ VIX[t] * MA_WINDOW < IntSum(VIX, t - MA_WINDOW + 1, t)

(* C2: signal rule.  The desired exposure of a date is true exactly when   *)
(* the date has MA_WINDOW observations ending at it, its VIX is below the   *)
(* threshold and below the mean of those observations; it is defined       *)
(* (false) on the dates with fewer observations.                           *)
SignalRule ==
  Computed =>
    /\ Len(desired_long) = Len(VIX)
    /\ \A t \in 1..Len(VIX) :
         desired_long[t] <=> (VIX[t] < VIX_THR /\ BelowAverage(t))

(* every case of C2 on one series: a date with exposure, a date below the  *)
(* threshold without a moving average, and a date below its average but    *)
(* not below the threshold                                                 *)
SignalWitness ==
  /\ pc = "done"
  /\ \E t \in 1..Len(VIX) : desired_long[t]
  /\ \E t \in 1..Len(VIX) : t < MA_WINDOW /\ VIX[t] < VIX_THR /\ ~desired_long[t]
  /\ \E t \in 1..Len(VIX) : VIX[t] >= VIX_THR /\ BelowAverage(t) /\ ~desired_long[t]

NavRecurrenceOf(nav, ret) ==
  /\ Len(nav) = Len(ret)
  /\ \A t \in 1..Len(nav) :
       /\ ~IsNaN(nav[t])
       /\ t = 1 => nav[t] = R(1)
       /\ t > 1 => nav[t] = RMul(nav[t - 1], RAdd(R(1), ret[t]))

(* C3: NAV recurrence.  Both NAV curves are 1.0 on the first date, follow  *)
(* NAV[t] = NAV[t-1] * (1 + return[t]) afterwards and hold a defined       *)
(* number on every date.                                                   *)
NavRecurrence ==
  Accumulated =>
    /\ NavRecurrenceOf(NAV_UPRO, UPRO_ret)
    /\ NavRecurrenceOf(NAV_strategy, strategy_ret)

(* the part of C3 the script does satisfy: the buy-and-hold curve *)
BuyHoldNavRecurrence == Accumulated => NavRecurrenceOf(NAV_UPRO, UPRO_ret)

(* the running peak and the drawdown of a date, from their definitions *)
PeakUpTo(nav, t) ==
  CHOOSE m \in {nav[i] : i \in 1..t} : \A i \in 1..t : RLe(nav[i], m)
DrawdownAt(nav, t) ==
  RDiv(RSub(nav[t], PeakUpTo(nav, t)), PeakUpTo(nav, t))

(* C4: maximum drawdown and trough.  max_drawdown returns the least        *)
(* drawdown over all dates, and as its end the earliest date whose         *)
(* drawdown is that least one.                                             *)
MaxDrawdownTrough ==
  (pc = "returned" /\ Len(nav_arg) > 0) =>
    /\ mdd_res.status = "ok"
    /\ mdd_res.end \in 1..Len(nav_arg)
    /\ mdd_res.mdd = DrawdownAt(nav_arg, mdd_res.end)
    /\ \A t \in 1..Len(nav_arg) : RLe(mdd_res.mdd, DrawdownAt(nav_arg, t))
    /\ \A t \in 1..(mdd_res.end - 1) : DrawdownAt(nav_arg, t) # mdd_res.mdd

(* a series whose deepest drawdown is reached on two dates *)
TroughTieWitness ==
  /\ pc = "returned"
  /\ mdd_res.status = "ok"
  /\ RLt(mdd_res.mdd, R(0))
  /\ \E t \in (mdd_res.end + 1)..Len(nav_arg) :
       DrawdownAt(nav_arg, t) = mdd_res.mdd

(* C5: drawdown start tie-break.  The start returned by max_drawdown is a  *)
(* date at or before the end holding the highest NAV of the dates up to    *)
(* the end, and the latest such date when several hold it.                 *)
DrawdownStartLatest ==
  (pc = "returned" /\ mdd_res.status = "ok") =>
    /\ mdd_res.start \in 1..mdd_res.end
    /\ nav_arg[mdd_res.start] = PeakUpTo(nav_arg, mdd_res.end)
    /\ \A t \in (mdd_res.start + 1)..mdd_res.end :
         nav_arg[t] # nav_arg[mdd_res.start]

(* what the script returns instead: the earliest date holding that peak *)
DrawdownStartEarliest ==
  (pc = "returned" /\ mdd_res.status = "ok") =>
    /\ mdd_res.start \in 1..mdd_res.end
    /\ nav_arg[mdd_res.start] = PeakUpTo(nav_arg, mdd_res.end)
    /\ \A t \in 1..(mdd_res.start - 1) : nav_arg[t] # nav_arg[mdd_res.start]

AnnualizedOf(res, nav) ==
  IF Len(nav) < 2 THEN res.nan
  ELSE /\ ~res.nan
       /\ res.total_days = Len(nav)
       /\ res.years = RDiv(R(Len(nav)), R(PER_YEAR))
       /\ res.base = RDiv(nav[Len(nav)], nav[1])

(* C6: annualized return definedness.  The annualized return is NaN for a  *)
(* series of fewer than 2 observations and otherwise the defined value     *)
(* (NAV[last]/NAV[first]) ^ (1/years) - 1 with years = dates / PER_YEAR,   *)
(* for the strategy curve and for the buy-and-hold curve.                  *)
AnnualizedReturnDefined ==
  Measured =>
    /\ AnnualizedOf(ann_ret_strat, NAV_strategy)
    /\ AnnualizedOf(ann_ret_upro, NAV_UPRO)

(* the part of C6 the script does satisfy: the buy-and-hold curve *)
BuyHoldAnnualizedDefined == Measured => AnnualizedOf(ann_ret_upro, NAV_UPRO)

(* C7: insufficient input is fatal.  With fewer than MA_WINDOW + 2 aligned *)
(* rows the pipeline stops before it computes any signal, position,        *)
(* return, NAV or metric.                                                  *)
ShortSeriesFatal == Len(VIX) < MA_WINDOW + 2 => pc = "signals"

(* C8: drawdown bound.  For a NAV series that starts positive and is never *)
(* negative every drawdown is at most 0 and the maximum drawdown lies in   *)
(* [-1, 0].                                                                *)
DrawdownBound ==
  (pc = "returned" /\ Len(nav_arg) > 0) =>
    /\ RLe(R(-1), mdd_res.mdd)
    /\ RLe(mdd_res.mdd, R(0))
    /\ \A t \in 1..Len(nav_arg) :
         RLe(drawdown(nav_arg, cummax(nav_arg))[t], R(0))

(* a series that loses everything: the bound -1 is attained *)
DrawdownBoundWitness ==
  /\ pc = "returned"
  /\ mdd_res.status = "ok"
  /\ mdd_res.mdd = R(-1)
  /\ \E t \in 1..Len(nav_arg) : RLt(R(-1), DrawdownAt(nav_arg, t))
                                /\ RLt(DrawdownAt(nav_arg, t), R(0))

TradeScenario == <<0, 0, 1, 1, 0, 1>>

(* C9: trade statistics.  total_trades is the number of dates after the    *)
(* first whose position differs from the previous one, days_in_market the  *)
(* number of dates with position 1; for [0,0,1,1,0,1] both are 3.          *)
TradeStatistics ==
  pc = "counted" =>
    /\ total_trades =
         Cardinality({t \in 2..Len(position) : position[t] # position[t - 1]})
    /\ days_in_market =
         Cardinality({t \in 1..Len(position) : position[t] = 1})
    /\ position = TradeScenario => (total_trades = 3 /\ days_in_market = 3)

(* the scenario of C9 has been counted *)
TradeWitness ==
  /\ pc = "counted"
  /\ position = TradeScenario
  /\ total_trades = 3
  /\ days_in_market = 3

(* C10: strategy return on every date, the first included.  The position   *)
(* change is |position[t] - position[t-1]| and 0 on the first date, the    *)
(* trade cost is the change times TRADE_COST, and the strategy return      *)
(* UPRO_ret * position - trade_cost is a defined number on every date: 0   *)
(* on the first date and, TRADE_COST being 0, UPRO_ret * position.         *)
StrategyReturnDefined ==
  Accumulated =>
    \A t \in 1..Len(position) :
      /\ pos_change[t] =
           (IF t = 1 THEN R(0) ELSE R(Abs(position[t] - position[t - 1])))
      /\ trade_cost[t] = RMul(pos_change[t], R(TRADE_COST))
      /\ strategy_ret[t] = RSub(RMul(UPRO_ret[t], R(position[t])), trade_cost[t])
      /\ ~IsNaN(strategy_ret[t])
      /\ t = 1 => strategy_ret[t] = R(0)
      /\ TRADE_COST = 0 => strategy_ret[t] = RMul(UPRO_ret[t], R(position[t]))

(* the part of C10 the script does satisfy: every date after the first *)
StrategyReturnAfterFirst ==
  Accumulated =>
    \A t \in 2..Len(position) :
      /\ pos_change[t] = R(Abs(position[t] - position[t - 1]))
      /\ strategy_ret[t] = RMul(UPRO_ret[t], R(position[t]))

====
